---- MODULE Spec2Model ----
(***************************************************************************)
(* Model of StudentDatabase (src/database.py): the roster store (students  *)
(* and scan_logs collections), the Google Sheet mirror, and the            *)
(* verify / sync / log operations, each split at its remote calls so that  *)
(* concurrent invocations interleave where the code has no lock.           *)
(***************************************************************************)
EXTENDS Integers, Sequences, FiniteSets, TLC

\* ------------------------------------------------------------------ bounds
\* total number of public calls started in one behaviour
MaxCalls == 2
\* total number of remote-call failures injected in one behaviour
MaxFaults == 1

\* ------------------------------------------------------------ text values
\* Cell and header texts are strings; str.lower(), str.isdigit(), int() and
\* str() work on their spelling, character by character.
SpellTab ==
    <<
       <<"student_id", <<"s", "t", "u", "d", "e", "n", "t", "_", "i", "d">>>>,
       <<"id", <<"i", "d">>>>,
       <<"student id", <<"s", "t", "u", "d", "e", "n", "t", " ", "i", "d">>>>,
       <<"name", <<"n", "a", "m", "e">>>>,
       <<"student_name", <<"s", "t", "u", "d", "e", "n", "t", "_", "n", "a", "m", "e">>>>,
       <<"full_name", <<"f", "u", "l", "l", "_", "n", "a", "m", "e">>>>,
       <<"email", <<"e", "m", "a", "i", "l">>>>,
       <<"email_address", <<"e", "m", "a", "i", "l", "_", "a", "d", "d", "r", "e", "s", "s">>>>,
       <<"age", <<"a", "g", "e">>>>,
       <<"competition", <<"c", "o", "m", "p", "e", "t", "i", "t", "i", "o", "n">>>>,
       <<"in_competition", <<"i", "n", "_", "c", "o", "m", "p", "e", "t", "i", "t", "i", "o", "n">>>>,
       <<"registration_status", <<"r", "e", "g", "i", "s", "t", "r", "a", "t", "i", "o", "n", "_", "s", "t", "a", "t", "u", "s">>>>,
       <<"registered", <<"r", "e", "g", "i", "s", "t", "e", "r", "e", "d">>>>,
       <<"status", <<"s", "t", "a", "t", "u", "s">>>>,
       <<"true", <<"t", "r", "u", "e">>>>,
       <<"yes", <<"y", "e", "s">>>>,
       <<"1", <<"1">>>>,
       <<"y", <<"y">>>>,
       <<"Name", <<"N", "a", "m", "e">>>>,
       <<"ID", <<"I", "D">>>>,
       <<"Status", <<"S", "t", "a", "t", "u", "s">>>>,
       <<"Student ID", <<"S", "t", "u", "d", "e", "n", "t", " ", "I", "D">>>>,
       <<"notes", <<"n", "o", "t", "e", "s">>>>,
       <<"S1", <<"S", "1">>>>,
       <<"S2", <<"S", "2">>>>,
       <<"Z9", <<"Z", "9">>>>,
       <<"Ann", <<"A", "n", "n">>>>,
       <<"Anna", <<"A", "n", "n", "a">>>>,
       <<"Sid", <<"S", "i", "d">>>>,
       <<"Zed", <<"Z", "e", "d">>>>,
       <<"20", <<"2", "0">>>>,
       <<"21", <<"2", "1">>>>,
       <<"0", <<"0">>>>,
       <<"n/a", <<"n", "/", "a">>>>,
       <<"TRUE", <<"T", "R", "U", "E">>>>,
       <<"FALSE", <<"F", "A", "L", "S", "E">>>>,
       <<"no", <<"n", "o">>>>,
       <<"Yes", <<"Y", "e", "s">>>>,
       <<"Registered", <<"R", "e", "g", "i", "s", "t", "e", "r", "e", "d">>>>,
       <<"", <<>>>>
    >>

Vocabulary == {SpellTab[k][1] : k \in 1..Len(SpellTab)}

\* the characters of a text
Spell ==
    [s \in Vocabulary |->
        LET k == CHOOSE k \in 1..Len(SpellTab) : SpellTab[k][1] = s
        IN  SpellTab[k][2]]

\* the text with the given characters
Unspell(cs) ==
    LET k == CHOOSE k \in 1..Len(SpellTab) : SpellTab[k][2] = cs
    IN  SpellTab[k][1]

UpperCase == <<"A","B","C","D","E","F","G","H","I","J","K","L","M",
               "N","O","P","Q","R","S","T","U","V","W","X","Y","Z">>
LowerCase == <<"a","b","c","d","e","f","g","h","i","j","k","l","m",
               "n","o","p","q","r","s","t","u","v","w","x","y","z">>
Digits == <<"0","1","2","3","4","5","6","7","8","9">>

LowerChar(c) ==
    IF \E k \in 1..Len(UpperCase) : UpperCase[k] = c
    THEN LowerCase[CHOOSE k \in 1..Len(UpperCase) : UpperCase[k] = c]
    ELSE c

\* a lower() that leaves every character as it is
LowerAsIs == [s \in Vocabulary |-> Spell[s]]

\* str.lower(): the spelling of s with every cased character lowered
Lower == [s \in Vocabulary |-> [k \in 1..Len(Spell[s]) |-> LowerChar(Spell[s][k])]]

\* `x.lower() in [w1, w2, ...]'
LowerIn(s, words) == \E w \in words : Lower[s] = Spell[w]

\* str.isdigit(): non-empty and every character a digit
IsDigit ==
    [s \in Vocabulary |->
        /\ Len(Spell[s]) > 0
        /\ \A k \in 1..Len(Spell[s]) : \E d \in 1..Len(Digits) : Digits[d] = Spell[s][k]]

DigitVal(c) == (CHOOSE d \in 1..Len(Digits) : Digits[d] = c) - 1

RECURSIVE IntOfChars(_)
IntOfChars(cs) ==
    IF cs = <<>> THEN 0
    ELSE 10 * IntOfChars(SubSeq(cs, 1, Len(cs) - 1)) + DigitVal(cs[Len(cs)])

\* int(value) for a digit string
IntOf(s) == IntOfChars(Spell[s])

RECURSIVE CharsOfInt(_)
CharsOfInt(n) ==
    IF n < 10 THEN <<Digits[n + 1]>>
    ELSE CharsOfInt(n \div 10) \o <<Digits[(n % 10) + 1]>>

\* str(n) for a non-negative integer
Str(n) == Unspell(CharsOfInt(n))

\* ------------------------------------------------------- header mapping
IdHeaders == {"student_id", "id", "student id"}
NameHeaders == {"name", "student_name", "full_name"}
EmailHeaders == {"email", "email_address"}
AgeHeaders == {"age"}
CompetitionHeaders == {"competition", "in_competition"}
StatusHeaders == {"registration_status", "registered", "status"}
CompetitionTruth == {"true", "yes", "1", "y"}
StatusTruth == {"true", "yes", "1", "y", "registered"}

FieldNames == {"student_id", "name", "email", "age", "competition",
               "registration_status"}

\* the schema field a header cell maps to ("" when the header is unknown)
HeaderField ==
    [h \in Vocabulary |->
        IF LowerIn(h, IdHeaders) THEN "student_id"
        ELSE IF LowerIn(h, NameHeaders) THEN "name"
        ELSE IF LowerIn(h, EmailHeaders) THEN "email"
        ELSE IF LowerIn(h, AgeHeaders) THEN "age"
        ELSE IF LowerIn(h, CompetitionHeaders) THEN "competition"
        ELSE IF LowerIn(h, StatusHeaders) THEN "registration_status"
        ELSE ""]

\* the value a cell text is imported as, by the field of its column
Coerce(f, v) ==
    IF f = "age" THEN (IF IsDigit[v] THEN IntOf(v) ELSE 0)
    ELSE IF f = "competition" THEN LowerIn(v, CompetitionTruth)
    ELSE IF f = "registration_status" THEN LowerIn(v, StatusTruth)
    ELSE v

Max(S) == CHOOSE x \in S : \A y \in S : y <= x

\* the dict built from one row: a later column of the same field overwrites
ParseRow(headers, row) ==
    LET cols(f) == {k \in 1..Len(headers) : HeaderField[headers[k]] = f}
        present == {f \in FieldNames : cols(f) # {}}
    IN  [f \in present |-> Coerce(f, row[Max(cols(f))])]

\* the test without the length guard of the row loop
RowImportedAnyLength(headers, row) ==
    /\ "student_id" \in DOMAIN ParseRow(headers, row)
    /\ ParseRow(headers, row)["student_id"] # ""

\* a row is imported when it is at least as long as the header row and its
\* dict holds a non-empty student_id
RowImported(headers, row) ==
    /\ Len(row) >= Len(headers)
    /\ "student_id" \in DOMAIN ParseRow(headers, row)
    /\ ParseRow(headers, row)["student_id"] # ""

RECURSIVE StudentsFrom(_, _)
StudentsFrom(values, k) ==
    IF k > Len(values) THEN <<>>
    ELSE (IF RowImported(values[1], values[k])
          THEN <<ParseRow(values[1], values[k])>> ELSE <<>>)
         \o StudentsFrom(values, k + 1)

\* students_data: the dicts of the imported rows, in sheet order
StudentsData(values) == StudentsFrom(values, 2)

\* dict.get(f, default)
Get(d, f, default) == IF f \in DOMAIN d THEN d[f] ELSE default

\* one rendered cell of row_data
RenderCell(f, d) ==
    IF f \in {"student_id", "name", "email"} THEN Get(d, f, "")
    ELSE IF f = "age" THEN (IF "age" \in DOMAIN d THEN Str(d["age"]) ELSE "")
    ELSE IF f \in {"competition", "registration_status"}
         THEN (IF Get(d, f, FALSE) THEN "TRUE" ELSE "FALSE")
    ELSE ""

\* row_data: the record rendered in header order
RowData(headers, d) ==
    [k \in 1..Len(headers) |-> RenderCell(HeaderField[headers[k]], d)]

\* row_index as `enumerate(values[1:], start=1)' would number the rows
RowIndexFromOne(values, sid) ==
    LET hits == {k \in 2..Len(values) : Len(values[k]) > 0 /\ values[k][1] = sid}
    IN  IF hits = {} THEN 0 ELSE (CHOOSE k \in hits : \A j \in hits : k <= j) - 1

\* row_index: the first data row whose first cell equals the identifier
\* (1-based sheet row, 0 for None)
RowIndex(values, sid) ==
    LET hits == {k \in 2..Len(values) : Len(values[k]) > 0 /\ values[k][1] = sid}
    IN  IF hits = {} THEN 0 ELSE CHOOSE k \in hits : \A j \in hits : k <= j

\* values().update on A<r>:<last header column><r>: cells beyond the header
\* width keep their text
UpdateRow(sh, r, row_data) ==
    [sh EXCEPT ![r] = row_data \o SubSeq(sh[r], Len(row_data) + 1, Len(sh[r]))]

\* values().append: one more row after the last one
AppendRow(sh, row_data) == Append(sh, row_data)

\* ------------------------------------------------------------ the store
\* find_one({"student_id": sid}): position of the first match, 0 when absent
FindOne(docs, sid) ==
    LET hits == {k \in 1..Len(docs) : Get(docs[k], "student_id", "") = sid}
    IN  IF hits = {} THEN 0 ELSE CHOOSE k \in hits : \A j \in hits : k <= j

\* $set: the fields of s laid over the document
SetFields(doc, s) ==
    [f \in (DOMAIN doc) \cup (DOMAIN s) |-> IF f \in DOMAIN s THEN s[f] ELSE doc[f]]

\* the write as a plain insert_one of the sheet's dict
UpsertAlwaysInsert(docs, s) == Append(docs, s)

\* update_one(filter, {"$set": s}, upsert=True)
Upsert(docs, s) ==
    LET k == FindOne(docs, s["student_id"])
    IN  IF k = 0 THEN Append(docs, s)
        ELSE [docs EXCEPT ![k] = SetFields(docs[k], s)]

\* update_one(filter, {"$set": {"registration_status": True}})
SetRegistered(docs, sid) ==
    LET k == FindOne(docs, sid)
    IN  IF k = 0 THEN docs
        ELSE [docs EXCEPT ![k] = SetFields(docs[k], [registration_status |-> TRUE])]

\* ------------------------------------------------------------- the state
Procs == {"p1", "p2"}

VARIABLES
    client,      \* self.client is not None
    collBound,   \* self.students_collection was bound before __init__ failed
    sheetsOn,    \* self.sheets_service and self.sheet_id are both set
    students,    \* documents of the students collection, in insertion order
    scan_logs,   \* documents of the scan_logs collection, in insertion order
    sheet,       \* rows of the sheet range as values().get returns them
    pc,          \* where each caller stands in its call
    call,        \* the public method each caller is in, with its arguments
    loc,         \* the locals of that call
    result,      \* the value the call returned
    calls,       \* calls started so far
    faults       \* remote-call failures so far

vars == <<client, collBound, sheetsOn, students, scan_logs, sheet,
          pc, call, loc, result, calls, faults>>

None == "None"
NoDoc == [absent |-> TRUE]
NoCall == [name |-> "none"]
NoResult == [pending |-> TRUE]

NoLocals ==
    [values |-> <<>>, data |-> <<>>, i |-> 0, student |-> NoDoc,
     record |-> NoDoc, status |-> "", row_index |-> 0, row_data |-> <<>>,
     pulled |-> "none", pushed |-> "none",
     reads |-> 0, writes |-> 0, sets |-> 0, logged |-> 0]

\* ------------------------------------------------------ initial states
\* the sheet of the spec's scenario, with a second student
SheetPlain ==
    << <<"student_id", "name", "age", "competition", "registration_status">>,
       <<"S1", "Ann", "20", "TRUE", "FALSE">>,
       <<"S2", "Sid", "n/a", "no", "FALSE">> >>

\* identifier in the second column, headers in other spellings
SheetIdSecond ==
    << <<"Name", "ID", "Status">>,
       <<"Ann", "S1", "no">>,
       <<"Sid", "S2", "Registered">> >>

\* a repeated identifier, a row cut short by an empty last cell, an empty
\* identifier, an unknown header
SheetMessy ==
    << <<"Student ID", "full_name", "registered", "notes">>,
       <<"S1", "Ann", "no", "n/a">>,
       <<"S2", "Sid", "Yes">>,
       <<"S1", "Anna", "y", "n/a">>,
       <<"", "Zed", "Yes", "n/a">> >>

SheetEmpty == <<>>

Sheets == {SheetPlain, SheetIdSecond, SheetMessy, SheetEmpty}

StoreEmpty == <<>>
StoreSeeded == << [student_id |-> "S2", name |-> "Sid", registration_status |-> FALSE] >>
Stores == {StoreEmpty, StoreSeeded}

Ids == {"S1", "S2", "Z9"}
ScanTypes == {"barcode"}
NewStudents == { [student_id |-> "Z9", name |-> "Zed"],
                 [student_id |-> "S2", name |-> "Sid"] }
PushRecords == { [student_id |-> "S1", name |-> "Ann", registration_status |-> TRUE],
                 [student_id |-> "Z9", name |-> "Zed"] }
DefaultLimit == 50
Limits == {1, DefaultLimit}

Init ==
    /\ client \in BOOLEAN
    /\ collBound \in BOOLEAN
    /\ client => collBound
    /\ sheetsOn \in BOOLEAN
    /\ students \in Stores
    /\ scan_logs = <<>>
    /\ sheet \in Sheets
    /\ pc = [p \in Procs |-> "idle"]
    /\ call = [p \in Procs |-> NoCall]
    /\ loc = [p \in Procs |-> NoLocals]
    /\ result = [p \in Procs |-> NoResult]
    /\ calls = 0
    /\ faults = 0

\* a remote call either succeeds or, while failures remain, raises
Outcome(ok) ==
    /\ ok \in BOOLEAN
    /\ ~ok => faults < MaxFaults
    /\ faults' = IF ok THEN faults ELSE faults + 1

Begin(p, c) ==
    /\ pc[p] = "idle"
    /\ calls < MaxCalls
    /\ calls' = calls + 1
    /\ call' = [call EXCEPT ![p] = c]

\* ---------------------------------------------- sync_from_google_sheet
\* the return of sync_from_google_sheet, were verify_student to give up on False
PullReturnsAbort(p, ok, l) ==
    IF call[p].name = "verify_student" /\ ok
    THEN /\ pc' = [pc EXCEPT ![p] = "find"]
         /\ loc' = [loc EXCEPT ![p] = [l EXCEPT !.values = <<>>, !.data = <<>>, !.i = 0,
                                                !.pulled = "ok"]]
         /\ UNCHANGED result
    ELSE /\ pc' = [pc EXCEPT ![p] = "done"]
         /\ loc' = [loc EXCEPT ![p] = [l EXCEPT !.values = <<>>, !.data = <<>>, !.i = 0,
                                                !.pulled = IF ok THEN "ok" ELSE "failed"]]
         /\ result' = [result EXCEPT ![p] =
                         IF call[p].name = "verify_student"
                         THEN [error |-> "Database error"] ELSE [returned |-> ok]]

\* the return of sync_from_google_sheet: back into verify_student, or out
PullReturns(p, ok, l) ==
    IF call[p].name = "verify_student"
    THEN /\ pc' = [pc EXCEPT ![p] = "find"]
         /\ loc' = [loc EXCEPT ![p] = [l EXCEPT !.values = <<>>, !.data = <<>>, !.i = 0,
                                                !.pulled = IF ok THEN "ok" ELSE "failed"]]
         /\ UNCHANGED result
    ELSE /\ pc' = [pc EXCEPT ![p] = "done"]
         /\ loc' = [loc EXCEPT ![p] = [l EXCEPT !.values = <<>>, !.data = <<>>, !.i = 0,
                                                !.pulled = IF ok THEN "ok" ELSE "failed"]]
         /\ result' = [result EXCEPT ![p] = [returned |-> ok]]

\* a direct call of sync_from_google_sheet
SyncFromGoogleSheet(p) ==
    /\ Begin(p, [name |-> "sync_from_google_sheet"])
    /\ pc' = [pc EXCEPT ![p] = "sync_read"]
    /\ UNCHANGED <<client, collBound, sheetsOn, students, scan_logs, sheet,
                   loc, result, faults>>

\* the configuration guard, values().get, and the mapping of rows to dicts
SyncRead(p) ==
    /\ pc[p] = "sync_read"
    /\ IF ~sheetsOn
       THEN /\ PullReturns(p, FALSE, loc[p])
            /\ UNCHANGED faults
       ELSE \E ok \in BOOLEAN :
            /\ Outcome(ok)
            /\ LET l == [loc[p] EXCEPT !.reads = @ + 1]
               IN  IF ~ok \/ sheet = <<>>
                   THEN PullReturns(p, FALSE, l)
                   ELSE IF StudentsData(sheet) = <<>>
                   THEN PullReturns(p, TRUE, l)
                   ELSE /\ pc' = [pc EXCEPT ![p] = "sync_upsert"]
                        /\ loc' = [loc EXCEPT ![p] =
                                     [l EXCEPT !.values = sheet,
                                               !.data = StudentsData(sheet),
                                               !.i = 1]]
                        /\ UNCHANGED result
    /\ UNCHANGED <<client, collBound, sheetsOn, students, scan_logs, sheet,
                   call, calls>>

\* the loop as a transaction: a failing update_one takes back the records
\* this pull has written so far
SyncUpsertRollback(p) ==
    /\ pc[p] = "sync_upsert"
    /\ \E ok \in BOOLEAN :
       /\ Outcome(ok)
       /\ IF ~ok \/ ~collBound
          THEN LET written == {loc[p].data[k]["student_id"] : k \in 1..(loc[p].i - 1)}
                   Kept(d) == Get(d, "student_id", "") \notin written
               IN  /\ PullReturns(p, FALSE, loc[p])
                   /\ students' = SelectSeq(students, Kept)
          ELSE /\ students' = Upsert(students, loc[p].data[loc[p].i])
               /\ IF loc[p].i = Len(loc[p].data)
                  THEN PullReturns(p, TRUE, loc[p])
                  ELSE /\ pc' = pc
                       /\ loc' = [loc EXCEPT ![p].i = @ + 1]
                       /\ UNCHANGED result
    /\ UNCHANGED <<client, collBound, sheetsOn, scan_logs, sheet, call, calls>>

\* one update_one(..., upsert=True) of the loop over students_data
SyncUpsert(p) ==
    /\ pc[p] = "sync_upsert"
    /\ \E ok \in BOOLEAN :
       /\ Outcome(ok)
       /\ IF ~ok \/ ~collBound
          THEN /\ PullReturns(p, FALSE, loc[p])
               /\ UNCHANGED students
          ELSE /\ students' = Upsert(students, loc[p].data[loc[p].i])
               /\ IF loc[p].i = Len(loc[p].data)
                  THEN PullReturns(p, TRUE, loc[p])
                  ELSE /\ pc' = pc
                       /\ loc' = [loc EXCEPT ![p].i = @ + 1]
                       /\ UNCHANGED result
    /\ UNCHANGED <<client, collBound, sheetsOn, scan_logs, sheet, call, calls>>

\* ------------------------------------------------ sync_to_google_sheet
\* the return of sync_to_google_sheet, were verify_student to give up on False
PushReturnsAbort(p, ok, l) ==
    IF call[p].name = "verify_student" /\ ok
    THEN /\ pc' = [pc EXCEPT ![p] = "log"]
         /\ loc' = [loc EXCEPT ![p] = [l EXCEPT !.values = <<>>,
                                                !.status = "registered",
                                                !.pushed = "ok"]]
         /\ UNCHANGED result
    ELSE /\ pc' = [pc EXCEPT ![p] = "done"]
         /\ loc' = [loc EXCEPT ![p] = [l EXCEPT !.values = <<>>,
                                                !.pushed = IF ok THEN "ok" ELSE "failed"]]
         /\ result' = [result EXCEPT ![p] =
                         IF call[p].name = "verify_student"
                         THEN [error |-> "Database error"] ELSE [returned |-> ok]]

\* the return of sync_to_google_sheet: back into verify_student, or out
PushReturns(p, ok, l) ==
    IF call[p].name = "verify_student"
    THEN /\ pc' = [pc EXCEPT ![p] = "log"]
         /\ loc' = [loc EXCEPT ![p] = [l EXCEPT !.values = <<>>,
                                                !.status = "registered",
                                                !.pushed = IF ok THEN "ok" ELSE "failed"]]
         /\ UNCHANGED result
    ELSE /\ pc' = [pc EXCEPT ![p] = "done"]
         /\ loc' = [loc EXCEPT ![p] = [l EXCEPT !.values = <<>>,
                                                !.pushed = IF ok THEN "ok" ELSE "failed"]]
         /\ result' = [result EXCEPT ![p] = [returned |-> ok]]

\* a direct call of sync_to_google_sheet(student_data)
SyncToGoogleSheet(p, rec) ==
    /\ Begin(p, [name |-> "sync_to_google_sheet"])
    /\ pc' = [pc EXCEPT ![p] = "push_read"]
    /\ loc' = [loc EXCEPT ![p].record = rec]
    /\ UNCHANGED <<client, collBound, sheetsOn, students, scan_logs, sheet,
                   result, faults>>

\* the configuration guard, values().get, the row search and the rendering
PushRead(p) ==
    /\ pc[p] = "push_read"
    /\ IF ~sheetsOn
       THEN /\ PushReturns(p, FALSE, loc[p])
            /\ UNCHANGED faults
       ELSE \E ok \in BOOLEAN :
            /\ Outcome(ok)
            /\ LET l == [loc[p] EXCEPT !.reads = @ + 1]
               IN  IF ~ok \/ sheet = <<>>
                   THEN PushReturns(p, FALSE, l)
                   ELSE /\ pc' = [pc EXCEPT ![p] = "push_write"]
                        /\ loc' = [loc EXCEPT ![p] =
                              [l EXCEPT !.values = sheet,
                                        !.row_index =
                                            RowIndex(sheet, Get(l.record, "student_id", None)),
                                        !.row_data = RowData(sheet[1], l.record)]]
                        /\ UNCHANGED result
    /\ UNCHANGED <<client, collBound, sheetsOn, students, scan_logs, sheet,
                   call, calls>>

\* the write as one atomic read-modify-write: the row is searched again in
\* the sheet as it is at write time
PushWriteFresh(p) ==
    /\ pc[p] = "push_write"
    /\ \E ok \in BOOLEAN :
       /\ Outcome(ok)
       /\ IF ~ok
          THEN /\ PushReturns(p, FALSE, loc[p])
               /\ UNCHANGED sheet
          ELSE LET r == RowIndex(sheet, Get(loc[p].record, "student_id", None))
               IN  /\ sheet' = IF r # 0
                               THEN UpdateRow(sheet, r, loc[p].row_data)
                               ELSE AppendRow(sheet, loc[p].row_data)
                   /\ PushReturns(p, TRUE, [loc[p] EXCEPT !.writes = @ + 1])
    /\ UNCHANGED <<client, collBound, sheetsOn, students, scan_logs, call, calls>>

\* values().update of the found row, or values().append
PushWrite(p) ==
    /\ pc[p] = "push_write"
    /\ \E ok \in BOOLEAN :
       /\ Outcome(ok)
       /\ IF ~ok
          THEN /\ PushReturns(p, FALSE, loc[p])
               /\ UNCHANGED sheet
          ELSE /\ sheet' = IF loc[p].row_index # 0
                           THEN UpdateRow(sheet, loc[p].row_index, loc[p].row_data)
                           ELSE AppendRow(sheet, loc[p].row_data)
               /\ PushReturns(p, TRUE, [loc[p] EXCEPT !.writes = @ + 1])
    /\ UNCHANGED <<client, collBound, sheetsOn, students, scan_logs, call, calls>>

\* ------------------------------------------------------ verify_student
VerifyError(p, msg) ==
    /\ pc' = [pc EXCEPT ![p] = "done"]
    /\ result' = [result EXCEPT ![p] = [error |-> msg]]

\* the call of verify_student going straight to the lookup
VerifyStudentNoPull(p, sid, st) ==
    /\ Begin(p, [name |-> "verify_student", student_id |-> sid, scan_type |-> st])
    /\ IF ~client
       THEN VerifyError(p, "Database connection not available")
       ELSE /\ pc' = [pc EXCEPT ![p] = "find"]
            /\ UNCHANGED result
    /\ UNCHANGED <<client, collBound, sheetsOn, students, scan_logs, sheet,
                   loc, faults>>

\* the call of verify_student: the connection guard, then into the pull
VerifyStudent(p, sid, st) ==
    /\ Begin(p, [name |-> "verify_student", student_id |-> sid, scan_type |-> st])
    /\ IF ~client
       THEN VerifyError(p, "Database connection not available")
       ELSE /\ pc' = [pc EXCEPT ![p] = "sync_read"]
            /\ UNCHANGED result
    /\ UNCHANGED <<client, collBound, sheetsOn, students, scan_logs, sheet,
                   loc, faults>>

\* the lookup without the branch on registration_status: a found record is
\* always written and pushed
VerifyFindAlwaysRegisters(p) ==
    /\ pc[p] = "find"
    /\ \E ok \in BOOLEAN :
       /\ Outcome(ok)
       /\ IF ~ok
          THEN /\ VerifyError(p, "Database error")
               /\ UNCHANGED loc
          ELSE LET k == FindOne(students, call[p].student_id)
               IN  /\ UNCHANGED result
                   /\ IF k = 0
                      THEN /\ pc' = [pc EXCEPT ![p] = "log"]
                           /\ loc' = [loc EXCEPT ![p].status = "not_found"]
                      ELSE /\ pc' = [pc EXCEPT ![p] = "update"]
                           /\ loc' = [loc EXCEPT ![p].student = students[k],
                                                 ![p].record =
                                    SetFields(students[k], [registration_status |-> TRUE])]
    /\ UNCHANGED <<client, collBound, sheetsOn, students, scan_logs, sheet,
                   call, calls>>

\* find_one and the branch on the record and its registration_status
VerifyFind(p) ==
    /\ pc[p] = "find"
    /\ \E ok \in BOOLEAN :
       /\ Outcome(ok)
       /\ IF ~ok
          THEN /\ VerifyError(p, "Database error")
               /\ UNCHANGED loc
          ELSE LET k == FindOne(students, call[p].student_id)
               IN  /\ UNCHANGED result
                   /\ IF k = 0
                      THEN /\ pc' = [pc EXCEPT ![p] = "log"]
                           /\ loc' = [loc EXCEPT ![p].status = "not_found"]
                      ELSE IF Get(students[k], "registration_status", FALSE)
                      THEN /\ pc' = [pc EXCEPT ![p] = "log"]
                           /\ loc' = [loc EXCEPT ![p].student = students[k],
                                                 ![p].status = "already_registered"]
                      ELSE /\ pc' = [pc EXCEPT ![p] = "update"]
                           /\ loc' = [loc EXCEPT ![p].student = students[k],
                                                 ![p].record =
                                    SetFields(students[k], [registration_status |-> TRUE])]
    /\ UNCHANGED <<client, collBound, sheetsOn, students, scan_logs, sheet,
                   call, calls>>

\* the flag write as a compare-and-set: a call that finds the flag already
\* true at write time reports already_registered
VerifyUpdateGuarded(p) ==
    /\ pc[p] = "update"
    /\ \E ok \in BOOLEAN :
       /\ Outcome(ok)
       /\ IF ~ok
          THEN /\ VerifyError(p, "Database error")
               /\ UNCHANGED <<students, loc>>
          ELSE IF FindOne(students, call[p].student_id) # 0
                  /\ Get(students[FindOne(students, call[p].student_id)],
                         "registration_status", FALSE)
          THEN /\ pc' = [pc EXCEPT ![p] = "log"]
               /\ loc' = [loc EXCEPT ![p].status = "already_registered"]
               /\ UNCHANGED <<students, result>>
          ELSE /\ students' = SetRegistered(students, call[p].student_id)
               /\ pc' = [pc EXCEPT ![p] = "push_read"]
               /\ loc' = [loc EXCEPT ![p].sets = @ + 1]
               /\ UNCHANGED result
    /\ UNCHANGED <<client, collBound, sheetsOn, scan_logs, sheet, call, calls>>

\* update_one setting registration_status, then into the push
VerifyUpdate(p) ==
    /\ pc[p] = "update"
    /\ \E ok \in BOOLEAN :
       /\ Outcome(ok)
       /\ IF ~ok
          THEN /\ VerifyError(p, "Database error")
               /\ UNCHANGED <<students, loc>>
          ELSE /\ students' = SetRegistered(students, call[p].student_id)
               /\ pc' = [pc EXCEPT ![p] = "push_read"]
               /\ loc' = [loc EXCEPT ![p].sets = @ + 1]
               /\ UNCHANGED result
    /\ UNCHANGED <<client, collBound, sheetsOn, scan_logs, sheet, call, calls>>

\* ------------------------------------------------------------ log_scan
\* a log document with the status and the name in each other's place
LogEntrySwapped(sid, name, status, st, ts) ==
    [student_id |-> sid, student_name |-> status, status |-> name,
     timestamp |-> ts, scan_type |-> st]

LogEntry(sid, name, status, st, ts) ==
    [student_id |-> sid, student_name |-> name, status |-> status,
     timestamp |-> ts, scan_type |-> st]

\* the returned value with the not_found branch reporting verified
VerifyResultVerified(l) ==
    IF l.status = "registered"
    THEN [verified |-> TRUE, student |-> l.record, action |-> "registered"]
    ELSE IF l.status = "already_registered"
    THEN [verified |-> TRUE, student |-> l.student, action |-> "already_registered"]
    ELSE [verified |-> TRUE, action |-> "not_found"]

\* what verify_student returns after its log_scan
VerifyResult(l) ==
    IF l.status = "registered"
    THEN [verified |-> TRUE, student |-> l.record, action |-> "registered"]
    ELSE IF l.status = "already_registered"
    THEN [verified |-> TRUE, student |-> l.student, action |-> "already_registered"]
    ELSE [verified |-> FALSE, action |-> "not_found"]

\* a direct call of log_scan
LogScanCall(p, sid, status, name, st) ==
    /\ Begin(p, [name |-> "log_scan", student_id |-> sid, scan_type |-> st])
    /\ IF ~client
       THEN /\ pc' = [pc EXCEPT ![p] = "done"]
            /\ result' = [result EXCEPT ![p] = [returned |-> None]]
            /\ UNCHANGED loc
       ELSE /\ pc' = [pc EXCEPT ![p] = "log"]
            /\ loc' = [loc EXCEPT ![p].status = status,
                                  ![p].student = [student_id |-> sid, name |-> name]]
            /\ UNCHANGED result
    /\ UNCHANGED <<client, collBound, sheetsOn, students, scan_logs, sheet, faults>>

\* the log write as update_one(..., upsert=True) keyed by the identifier: a
\* later scan of a student overwrites the earlier entry
LogScanUpsert(p) ==
    /\ pc[p] = "log"
    /\ \E ok \in BOOLEAN :
       /\ Outcome(ok)
       /\ IF ok /\ client
          THEN LET e == LogEntry(call[p].student_id, Get(loc[p].student, "name", None),
                                 loc[p].status, call[p].scan_type, Len(scan_logs) + 1)
                   old == {k \in 1..Len(scan_logs) :
                              scan_logs[k].student_id = call[p].student_id}
               IN  /\ scan_logs' = IF old = {} THEN Append(scan_logs, e)
                                   ELSE [k \in 1..Len(scan_logs) |->
                                           IF k \in old THEN e ELSE scan_logs[k]]
                   /\ loc' = [loc EXCEPT ![p].logged = @ + 1]
          ELSE UNCHANGED <<scan_logs, loc>>
    /\ pc' = [pc EXCEPT ![p] = "done"]
    /\ result' = [result EXCEPT ![p] =
                    IF call[p].name = "verify_student"
                    THEN VerifyResult(loc[p]) ELSE [returned |-> None]]
    /\ UNCHANGED <<client, collBound, sheetsOn, students, sheet, call, calls>>

\* insert_one of the log entry; an exception is printed and swallowed
LogScan(p) ==
    /\ pc[p] = "log"
    /\ \E ok \in BOOLEAN :
       /\ Outcome(ok)
       /\ IF ok /\ client
          THEN /\ scan_logs' = Append(scan_logs,
                     LogEntry(call[p].student_id, Get(loc[p].student, "name", None),
                              loc[p].status, call[p].scan_type, Len(scan_logs) + 1))
               /\ loc' = [loc EXCEPT ![p].logged = @ + 1]
          ELSE UNCHANGED <<scan_logs, loc>>
    /\ pc' = [pc EXCEPT ![p] = "done"]
    /\ result' = [result EXCEPT ![p] =
                    IF call[p].name = "verify_student"
                    THEN VerifyResult(loc[p]) ELSE [returned |-> None]]
    /\ UNCHANGED <<client, collBound, sheetsOn, students, sheet, call, calls>>

\* ------------------------------------------- get_scan_logs, get_all_students
RECURSIVE Reverse(_)
Reverse(q) == IF q = <<>> THEN <<>> ELSE Reverse(Tail(q)) \o <<Head(q)>>

\* find().sort("timestamp", -1).limit(limit)
RecentLogs(logs, limit) ==
    SubSeq(Reverse(logs), 1, IF Len(logs) < limit THEN Len(logs) ELSE limit)

\* byte order of the characters of the model's texts
CharOrder == <<" ", "/">> \o Digits \o UpperCase \o <<"_">> \o LowerCase
Rank(c) == CHOOSE k \in 1..Len(CharOrder) : CharOrder[k] = c

TextLess(a, b) ==
    \E k \in 1..(Len(b)) :
       /\ \A j \in 1..(k - 1) : j <= Len(a) /\ a[j] = b[j]
       /\ \/ k > Len(a)
          \/ Rank(a[k]) < Rank(b[k])

\* the sort key of a document: a missing name sorts before every text
NameBefore(d, e) ==
    IF "name" \notin DOMAIN e THEN FALSE
    ELSE IF "name" \notin DOMAIN d THEN TRUE
    ELSE TextLess(Spell[d["name"]], Spell[e["name"]])

RECURSIVE InsertByName(_, _)
InsertByName(sorted, d) ==
    IF sorted = <<>> THEN <<d>>
    ELSE IF NameBefore(d, Head(sorted)) THEN <<d>> \o sorted
    ELSE <<Head(sorted)>> \o InsertByName(Tail(sorted), d)

RECURSIVE SortByName(_)
\* find().sort("name", 1)
SortByName(docs) ==
    IF docs = <<>> THEN <<>>
    ELSE InsertByName(SortByName(SubSeq(docs, 1, Len(docs) - 1)), docs[Len(docs)])

GetScanLogs(p, limit) ==
    /\ Begin(p, [name |-> "get_scan_logs", limit |-> limit])
    /\ pc' = [pc EXCEPT ![p] = "done"]
    /\ IF ~client
       THEN /\ result' = [result EXCEPT ![p] = [returned |-> <<>>]]
            /\ UNCHANGED faults
       ELSE \E ok \in BOOLEAN :
            /\ Outcome(ok)
            /\ result' = [result EXCEPT ![p] =
                 [returned |-> IF ok THEN RecentLogs(scan_logs, limit) ELSE <<>>]]
    /\ UNCHANGED <<client, collBound, sheetsOn, students, scan_logs, sheet, loc>>

GetAllStudents(p) ==
    /\ Begin(p, [name |-> "get_all_students"])
    /\ pc' = [pc EXCEPT ![p] = "done"]
    /\ IF ~client
       THEN /\ result' = [result EXCEPT ![p] = [returned |-> <<>>]]
            /\ UNCHANGED faults
       ELSE \E ok \in BOOLEAN :
            /\ Outcome(ok)
            /\ result' = [result EXCEPT ![p] =
                 [returned |-> IF ok THEN SortByName(students) ELSE <<>>]]
    /\ UNCHANGED <<client, collBound, sheetsOn, students, scan_logs, sheet, loc>>

\* --------------------------------------------------------- add_student
\* the call of add_student: the connection guard
AddStudent(p, data) ==
    /\ Begin(p, [name |-> "add_student"])
    /\ IF ~client
       THEN /\ VerifyError(p, "Database connection not available")
            /\ UNCHANGED loc
       ELSE /\ pc' = [pc EXCEPT ![p] = "add_find"]
            /\ loc' = [loc EXCEPT ![p].record = data]
            /\ UNCHANGED result
    /\ UNCHANGED <<client, collBound, sheetsOn, students, scan_logs, sheet, faults>>

\* find_one for an existing record of the identifier
AddFind(p) ==
    /\ pc[p] = "add_find"
    /\ \E ok \in BOOLEAN :
       /\ Outcome(ok)
       /\ IF ~ok
          THEN VerifyError(p, "Error adding student")
          ELSE IF FindOne(students, loc[p].record["student_id"]) # 0
          THEN VerifyError(p, "Student ID already exists")
          ELSE /\ pc' = [pc EXCEPT ![p] = "add_insert"]
               /\ UNCHANGED result
    /\ UNCHANGED <<client, collBound, sheetsOn, students, scan_logs, sheet,
                   call, loc, calls>>

\* the creation timestamp and insert_one
AddInsert(p) ==
    /\ pc[p] = "add_insert"
    /\ \E ok \in BOOLEAN :
       /\ Outcome(ok)
       /\ IF ~ok
          THEN /\ VerifyError(p, "Error adding student")
               /\ UNCHANGED students
          ELSE /\ students' = Append(students,
                                SetFields(loc[p].record, [created_at |-> calls]))
               /\ pc' = [pc EXCEPT ![p] = "done"]
               /\ result' = [result EXCEPT ![p] = [success |-> TRUE]]
    /\ UNCHANGED <<client, collBound, sheetsOn, scan_logs, sheet, call, loc, calls>>

\* the caller takes the returned value and is free for its next call
Return(p) ==
    /\ pc[p] = "done"
    /\ pc' = [pc EXCEPT ![p] = "idle"]
    /\ call' = [call EXCEPT ![p] = NoCall]
    /\ loc' = [loc EXCEPT ![p] = NoLocals]
    /\ result' = [result EXCEPT ![p] = NoResult]
    /\ UNCHANGED <<client, collBound, sheetsOn, students, scan_logs, sheet,
                   calls, faults>>

\* ------------------------------------------------------ specifications
Step(p) ==
    \/ \E sid \in Ids, st \in ScanTypes : VerifyStudent(p, sid, st)
    \/ SyncFromGoogleSheet(p)
    \/ SyncRead(p)
    \/ SyncUpsert(p)
    \/ VerifyFind(p)
    \/ VerifyUpdate(p)
    \/ \E rec \in PushRecords : SyncToGoogleSheet(p, rec)
    \/ PushRead(p)
    \/ PushWrite(p)
    \/ \E st \in ScanTypes : LogScanCall(p, "Z9", "error", None, st)
    \/ LogScan(p)
    \/ \E data \in NewStudents : AddStudent(p, data)
    \/ AddFind(p)
    \/ AddInsert(p)
    \/ \E limit \in Limits : GetScanLogs(p, limit)
    \/ GetAllStudents(p)
    \/ Return(p)

\* callers run concurrently: the class takes no lock
Next == \E p \in Procs : Step(p)

Spec == Init /\ [][Next]_vars

\* calls run one at a time: a call starts and proceeds only while every
\* other caller is idle
Quiet(p) == \A q \in Procs \ {p} : pc[q] = "idle"

SerialNext == \E p \in Procs : Quiet(p) /\ Step(p)

SerialSpec == Init /\ [][SerialNext]_vars

\* =============================================================== claims
Flag(d) == Get(d, "registration_status", FALSE)

InVerify(p) == call[p].name = "verify_student"

\* the scan-log entries of one identifier with one status
LogCount(sid, status) ==
    Cardinality({k \in 1..Len(scan_logs) :
                    scan_logs[k].student_id = sid /\ scan_logs[k].status = status})

\* C1: in every step taken while a verify_student call is running (its pull,
\* its flag write, its push), a record whose registration flag is true keeps
\* it true.
C1_FlagMonotonic ==
    [][(\E p \in Procs : InVerify(p))
         => \A k \in 1..Len(students) : Flag(students[k]) => Flag(students'[k])]_vars

\* C2: a verify_student that returns "registered" is the first one to do so
\* for its identifier: no "registered" scan of that identifier was logged by
\* an earlier call.
C2_RegisteredOnce ==
    \A p \in Procs :
       (pc[p] = "done" /\ InVerify(p) /\ "action" \in DOMAIN result[p]
          /\ result[p].action = "registered")
       => LogCount(call[p].student_id, "registered") <= loc[p].logged

\* C4: every verify_student call that returns, whatever it returns, has
\* appended one scan-log entry for the scanned identifier in its last step.
C4_AlwaysLogged ==
    [][\A p \in Procs :
         (pc[p] # "done" /\ pc'[p] = "done" /\ InVerify(p)')
         => /\ Len(scan_logs') = Len(scan_logs) + 1
            /\ scan_logs'[Len(scan_logs')].student_id = call'[p].student_id]_vars

\* the column the identifier is read from, 0 when no header names it
IdColumn(headers) ==
    LET c == {k \in 1..Len(headers) : HeaderField[headers[k]] = "student_id"}
    IN  IF c = {} THEN 0 ELSE Max(c)

\* the identifier cell of a data row, "" when the row has no such cell
RowId(values, k) ==
    LET c == IdColumn(values[1])
    IN  IF c = 0 \/ c > Len(values[k]) THEN "" ELSE values[k][c]

RecordsOf(sid) == {j \in 1..Len(students) : Get(students[j], "student_id", "") = sid}

\* the record holds, for every mapped column the row has, the imported value
HoldsRow(d, headers, row) ==
    \A c \in 1..Len(headers) :
       (HeaderField[headers[c]] # "" /\ c <= Len(row))
       => /\ HeaderField[headers[c]] \in DOMAIN d
          /\ d[HeaderField[headers[c]]] = Coerce(HeaderField[headers[c]], row[c])

\* C5: after a sync_from_google_sheet that returned True (the store being
\* connected), every data row with a non-empty identifier cell has exactly
\* one record in the store, holding the fields of the last row of that
\* identifier.
C5_EveryRowImported ==
    \A p \in Procs :
       (pc[p] = "done" /\ call[p].name = "sync_from_google_sheet" /\ client
          /\ result[p].returned = TRUE)
       => \A k \in 2..Len(sheet) :
             RowId(sheet, k) # ""
             => LET sid == RowId(sheet, k)
                    last == Max({j \in 2..Len(sheet) : RowId(sheet, j) = sid})
                IN  /\ Cardinality(RecordsOf(sid)) = 1
                    /\ \A j \in RecordsOf(sid) : HoldsRow(students[j], sheet[1], sheet[last])

\* C10: with the connection absent, it stays absent, the guarded calls return
\* their error or empty value at once, and no step of any call changes the
\* student records, the scan log or the sheet.
C10_AbsentStoreInert ==
    [][~client
         => /\ ~client'
            /\ students' = students
            /\ scan_logs' = scan_logs
            /\ sheet' = sheet
            /\ \A p \in Procs :
                 (pc[p] = "idle" /\ pc'[p] # "idle"
                    /\ call'[p].name \in {"verify_student", "add_student", "get_scan_logs",
                                          "get_all_students", "log_scan"})
                 => /\ pc'[p] = "done"
                    /\ call'[p].name \in {"verify_student", "add_student"}
                         => "error" \in DOMAIN result'[p]
                    /\ call'[p].name \in {"get_scan_logs", "get_all_students"}
                         => result'[p] = [returned |-> <<>>]
                    /\ call'[p].name = "log_scan"
                         => result'[p] = [returned |-> None]]_vars

Sid(p) == call[p].student_id

LastLog(logs) == logs[Len(logs)]

\* the log grew by exactly one entry, for this identifier with this status
Logged(p, status) ==
    /\ Len(scan_logs') = Len(scan_logs) + 1
    /\ SubSeq(scan_logs', 1, Len(scan_logs)) = scan_logs
    /\ LastLog(scan_logs').student_id = Sid(p)
    /\ LastLog(scan_logs').status = status

NotFoundResult == [verified |-> FALSE, action |-> "not_found"]

\* C3 as stated, for calls with the connection present and no remote call
\* failing: while a verify_student call runs for an identifier the store
\* does not hold, no step changes the student records, and the call returns
\* not_found after appending a not_found scan-log entry.
C3_AbsentNeverMutates ==
    [][\A p \in Procs :
         (InVerify(p)' /\ client /\ faults' = 0
            /\ RecordsOf(call'[p].student_id) = {})
         => /\ students' = students
            /\ (pc[p] # "done" /\ pc'[p] = "done")
                 => /\ result'[p] = NotFoundResult
                    /\ Logged(p, "not_found")]_vars

\* C3 as amended: the lookup takes the not_found branch exactly when the
\* store holds no record of the identifier at that moment; from the lookup
\* on the call changes no student record, returns not_found, and appends a
\* not_found scan-log entry unless the log insert itself raises.
C3_NotFoundFrame ==
    [][\A p \in Procs :
         InVerify(p)
         => /\ (pc[p] = "find" /\ pc'[p] # "find" /\ faults' = faults)
                 => /\ students' = students
                    /\ (RecordsOf(Sid(p)) = {})
                         <=> (pc'[p] = "log" /\ loc'[p].status = "not_found")
            /\ (pc[p] = "log" /\ loc[p].status = "not_found" /\ pc'[p] # "log")
                 => /\ students' = students
                    /\ pc'[p] = "done"
                    /\ result'[p] = NotFoundResult
                    /\ IF faults' = faults
                       THEN Logged(p, "not_found")
                       ELSE scan_logs' = scan_logs]_vars

C3_Witness ==
    \E p \in Procs :
       /\ pc[p] = "done" /\ InVerify(p)
       /\ result[p] = NotFoundResult
       /\ RecordsOf(Sid(p)) = {}
       /\ loc[p].pulled = "ok" /\ students # <<>>
       /\ scan_logs # <<>> /\ LastLog(scan_logs).status = "not_found"
       /\ LastLog(scan_logs).student_id = Sid(p)

\* a data row whose first cell is the identifier
Matches(sh, k, sid) == k \in 2..Len(sh) /\ Len(sh[k]) > 0 /\ sh[k][1] = sid

\* C6: a push that succeeds, run with no other call in between, rewrites one
\* data row whose first cell equals the record's identifier, leaving every
\* other row and the row count as they were; when no data row has that first
\* cell it leaves every row as it was and adds exactly one row.
C6_PushFrame ==
    [][\A p \in Procs :
         (pc[p] = "push_write" /\ pc'[p] # "push_write" /\ loc'[p].pushed = "ok")
         => LET sid == Get(loc[p].record, "student_id", None)
            IN  IF \E k \in 2..Len(sheet) : Matches(sheet, k, sid)
                THEN /\ Len(sheet') = Len(sheet)
                     /\ \E m \in 2..Len(sheet) :
                          /\ Matches(sheet, m, sid)
                          /\ \A k \in 1..Len(sheet) : k # m => sheet'[k] = sheet[k]
                          /\ Matches(sheet', m, sid)
                ELSE /\ Len(sheet') = Len(sheet) + 1
                     /\ \A k \in 1..Len(sheet) : sheet'[k] = sheet[k]]_vars

C6_Witness ==
    \E p \in Procs :
       /\ pc[p] = "done" /\ call[p].name = "sync_to_google_sheet"
       /\ loc[p].pushed = "ok" /\ loc[p].row_index = 2 /\ Len(sheet) >= 3
       /\ sheet[2] = loc[p].row_data
       /\ sheet[2] \notin {SheetPlain[2], SheetIdSecond[2], SheetMessy[2]}

ThreeOutcomes == {"registered", "already_registered", "not_found"}

\* the lookup step takes the branch the store's state calls for
Decided(p) ==
    /\ students' = students
    /\ IF RecordsOf(Sid(p)) = {}
       THEN pc'[p] = "log" /\ loc'[p].status = "not_found"
       ELSE IF \E j \in RecordsOf(Sid(p)) :
                  Flag(students[j]) /\ \A i \in RecordsOf(Sid(p)) : j <= i
       THEN pc'[p] = "log" /\ loc'[p].status = "already_registered"
       ELSE pc'[p] = "update"

Errored(p) == pc'[p] = "done" /\ "error" \in DOMAIN result'[p]

\* a step of the registering branch after the lookup, short of the return
Registering(p) ==
    /\ pc[p] \in {"push_read", "push_write"}
         => /\ pc'[p] \in {"push_write", "log"}
            /\ pc'[p] = "log" => loc'[p].status = "registered"
    /\ (pc[p] = "log" /\ pc'[p] # "log")
         => /\ pc'[p] = "done"
            /\ loc[p].status \in ThreeOutcomes
            /\ "action" \in DOMAIN result'[p]
            /\ result'[p].action = loc[p].status
            /\ result'[p].verified = (loc[p].status # "not_found")

\* C7 as stated: a verify_student call whose pull returned False goes on to
\* the lookup, which picks the branch by the store's state, and the call
\* returns one of registered, already_registered, not_found.
C7_PullFailureNotFatal ==
    [][\A p \in Procs :
         InVerify(p)
         => /\ (pc[p] \in {"sync_read", "sync_upsert"} /\ loc'[p].pulled = "failed")
                 => pc'[p] = "find"
            /\ (loc[p].pulled = "failed" /\ pc'[p] # pc[p])
                 => /\ pc[p] = "find" => Decided(p)
                    /\ pc[p] = "update" => pc'[p] = "push_read"
                    /\ Registering(p)]_vars

\* C7 as amended: the same, except that a lookup or flag write that itself
\* raises ends the call with an error result.
C7_PullFailureThenLookup ==
    [][\A p \in Procs :
         InVerify(p)
         => /\ (pc[p] \in {"sync_read", "sync_upsert"} /\ loc'[p].pulled = "failed")
                 => pc'[p] = "find"
            /\ (loc[p].pulled = "failed" /\ pc'[p] # pc[p])
                 => /\ pc[p] = "find"
                         => IF faults' = faults THEN Decided(p) ELSE Errored(p)
                    /\ pc[p] = "update"
                         => IF faults' = faults THEN pc'[p] = "push_read" ELSE Errored(p)
                    /\ Registering(p)]_vars

C7_Witness ==
    \E p \in Procs :
       /\ pc[p] = "done" /\ InVerify(p)
       /\ loc[p].pulled = "failed" /\ loc[p].reads > 0
       /\ "action" \in DOMAIN result[p] /\ result[p].action = "already_registered"

\* the store holds the identifier with its registration flag true
StoredRegistered(docs, sid) ==
    /\ \E j \in 1..Len(docs) : Get(docs[j], "student_id", "") = sid
    /\ \A j \in 1..Len(docs) : Get(docs[j], "student_id", "") = sid => Flag(docs[j])

\* C8 as stated: when the push of the registering branch returns False the
\* store keeps the flag true, the call goes on to log_scan, a "registered"
\* entry is appended and the call returns verified with action "registered".
C8_PushFailureKeepsWrite ==
    [][\A p \in Procs :
         InVerify(p)
         => /\ (pc[p] \in {"push_read", "push_write"} /\ loc'[p].pushed = "failed")
                 => /\ pc'[p] = "log" /\ loc'[p].status = "registered"
                    /\ students' = students
                    /\ StoredRegistered(students', Sid(p))
            /\ (pc[p] = "log" /\ loc[p].pushed = "failed" /\ pc'[p] # "log")
                 => /\ students' = students
                    /\ StoredRegistered(students', Sid(p))
                    /\ pc'[p] = "done"
                    /\ result'[p].verified /\ result'[p].action = "registered"
                    /\ Logged(p, "registered")]_vars

\* C8 as amended: the same, except that the "registered" entry is missing
\* when the log insert itself raises (log_scan swallows that exception).
C8_PushFailureKeepsFlag ==
    [][\A p \in Procs :
         InVerify(p)
         => /\ (pc[p] \in {"push_read", "push_write"} /\ loc'[p].pushed = "failed")
                 => /\ pc'[p] = "log" /\ loc'[p].status = "registered"
                    /\ students' = students
                    /\ StoredRegistered(students', Sid(p))
            /\ (pc[p] = "log" /\ loc[p].pushed = "failed" /\ pc'[p] # "log")
                 => /\ students' = students
                    /\ StoredRegistered(students', Sid(p))
                    /\ pc'[p] = "done"
                    /\ result'[p].verified /\ result'[p].action = "registered"
                    /\ IF faults' = faults
                       THEN Logged(p, "registered")
                       ELSE scan_logs' = scan_logs]_vars

C8_Witness ==
    \E p \in Procs :
       /\ pc[p] = "done" /\ InVerify(p)
       /\ loc[p].pushed = "failed" /\ loc[p].reads = 2 /\ faults > 0
       /\ result[p].action = "registered" /\ result[p].verified
       /\ StoredRegistered(students, Sid(p))
       /\ scan_logs # <<>> /\ LastLog(scan_logs).status = "registered"
       /\ LastLog(scan_logs).student_id = Sid(p)

\* two returned verify_student calls of one identifier, both "registered"
BothRegistered(p, q) ==
    /\ p # q
    /\ pc[p] = "done" /\ pc[q] = "done"
    /\ InVerify(p) /\ InVerify(q) /\ Sid(p) = Sid(q)
    /\ "action" \in DOMAIN result[p] /\ result[p].action = "registered"
    /\ "action" \in DOMAIN result[q] /\ result[q].action = "registered"

\* C9: nothing between the read of the flag and the return looks at the flag
\* again: a call that read it false writes it true whatever the store holds
\* by then, logs "registered" (unless the log insert raises) and returns
\* "registered"; so two concurrent calls that both read it false both return
\* "registered", with one "registered" entry for each log insert that worked.
C9_NoRecheck ==
    [][/\ \A p \in Procs :
            (InVerify(p) /\ pc'[p] # pc[p])
            => /\ pc[p] = "update"
                    => IF faults' = faults
                       THEN /\ pc'[p] = "push_read"
                            /\ \E j \in 1..Len(students') :
                                  /\ Get(students'[j], "student_id", "") = Sid(p)
                                  /\ Flag(students'[j])
                       ELSE Errored(p)
               /\ loc[p].sets = 1
                    => /\ Registering(p)
                       /\ pc[p] = "log"
                            => /\ result'[p].action = "registered"
                               /\ faults' = faults => Logged(p, "registered")
       /\ \A p, q \in Procs :
            BothRegistered(p, q)'
            => LogCount(Sid(p), "registered")' >= loc'[p].logged + loc'[q].logged]_vars

\* both calls read the flag false before either wrote it: with the sheet
\* unconfigured nothing but the race lets the second call register again
C9_Witness ==
    \E p, q \in Procs :
       /\ BothRegistered(p, q)
       /\ ~sheetsOn /\ faults = 0
       /\ loc[p].sets = 1 /\ loc[q].sets = 1
       /\ LogCount(Sid(p), "registered") = 2

\* C11: with calls run one at a time, no two documents of the students
\* collection carry the same identifier.
C11_UniqueIdentifier ==
    \A j, k \in 1..Len(students) :
       Get(students[j], "student_id", "") = Get(students[k], "student_id", "") => j = k

\* an added record, a seeded or imported one and a verification side by side
C11_Witness ==
    /\ Len(students) >= 3
    /\ \E j \in 1..Len(students) : "created_at" \in DOMAIN students[j]
    /\ \E p \in Procs : pc[p] = "done" /\ InVerify(p) /\ loc[p].pulled = "ok"

\* C12: every step leaves the scan_logs collection as it was or adds one
\* entry after the existing ones, which stay as they were.
C12_LogAppendOnly ==
    [][\/ scan_logs' = scan_logs
       \/ /\ Len(scan_logs') = Len(scan_logs) + 1
          /\ SubSeq(scan_logs', 1, Len(scan_logs)) = scan_logs]_vars

\* a second scan of an identifier logged after the first
C12_Witness ==
    /\ Len(scan_logs) = 2
    /\ scan_logs[1].student_id = scan_logs[2].student_id
    /\ scan_logs[1].timestamp = 1 /\ scan_logs[2].timestamp = 2

AlreadyResult(p) ==
    /\ "action" \in DOMAIN result'[p]
    /\ result'[p].action = "already_registered"
    /\ result'[p].verified

\* the first record of the identifier, the one find_one returns, is flagged
FoundRegistered(p) ==
    \E j \in RecordsOf(Sid(p)) :
       Flag(students[j]) /\ \A i \in RecordsOf(Sid(p)) : j <= i

\* C13 as stated: a lookup that finds the flag true goes straight to
\* log_scan; between the lookup and the return neither the student records
\* nor the sheet change, and one already_registered entry is appended.
C13_AlreadyRegisteredLogsOnce ==
    [][\A p \in Procs :
         InVerify(p)
         => /\ (pc[p] = "find" /\ pc'[p] # "find" /\ faults' = faults
                  /\ FoundRegistered(p))
                 => /\ pc'[p] = "log" /\ loc'[p].status = "already_registered"
                    /\ students' = students /\ sheet' = sheet
                    /\ scan_logs' = scan_logs
            /\ (pc[p] = "log" /\ loc[p].status = "already_registered" /\ pc'[p] # "log")
                 => /\ students' = students /\ sheet' = sheet
                    /\ pc'[p] = "done" /\ AlreadyResult(p)
                    /\ loc'[p].sets = 0 /\ loc'[p].writes = 0
                    /\ Logged(p, "already_registered")]_vars

\* C13 as amended: the same, except that the entry is missing when the log
\* insert itself raises.
C13_AlreadyRegisteredFrame ==
    [][\A p \in Procs :
         InVerify(p)
         => /\ (pc[p] = "find" /\ pc'[p] # "find" /\ faults' = faults
                  /\ FoundRegistered(p))
                 => /\ pc'[p] = "log" /\ loc'[p].status = "already_registered"
                    /\ students' = students /\ sheet' = sheet
                    /\ scan_logs' = scan_logs
            /\ (pc[p] = "log" /\ loc[p].status = "already_registered" /\ pc'[p] # "log")
                 => /\ students' = students /\ sheet' = sheet
                    /\ pc'[p] = "done" /\ AlreadyResult(p)
                    /\ loc'[p].sets = 0 /\ loc'[p].writes = 0
                    /\ IF faults' = faults
                       THEN Logged(p, "already_registered")
                       ELSE scan_logs' = scan_logs]_vars

C13_Witness ==
    \E p \in Procs :
       /\ pc[p] = "done" /\ InVerify(p)
       /\ "action" \in DOMAIN result[p] /\ result[p].action = "already_registered"
       /\ loc[p].sets = 0 /\ loc[p].writes = 0 /\ loc[p].logged = 1
       /\ StoredRegistered(students, Sid(p))
       /\ LastLog(scan_logs).status = "already_registered"
       /\ LastLog(scan_logs).student_id = Sid(p)

InPush(p) == call[p].name = "sync_to_google_sheet"

PushId(p) == Get(loc[p].record, "student_id", None)

\* C14: the row a push writes is the one its own earlier read of the sheet
\* pointed at, whatever the sheet holds by the time of the write: a push that
\* found no row appends one even when another push has added the row since.
C14_StaleRowIndex ==
    [][\A p \in Procs :
         /\ (pc[p] = "push_read" /\ pc'[p] = "push_write")
              => IF \E k \in 2..Len(sheet) : Matches(sheet, k, PushId(p))
                 THEN /\ Matches(sheet, loc'[p].row_index, PushId(p))
                      /\ \A k \in 2..(loc'[p].row_index - 1) :
                            ~Matches(sheet, k, PushId(p))
                 ELSE loc'[p].row_index = 0
         /\ (pc[p] = "push_write" /\ pc'[p] # "push_write" /\ loc'[p].pushed = "ok")
              => IF loc[p].row_index = 0
                 THEN /\ Len(sheet') = Len(sheet) + 1
                      /\ SubSeq(sheet', 1, Len(sheet)) = sheet
                      /\ sheet'[Len(sheet')] = loc[p].row_data
                 ELSE /\ Len(sheet') = Len(sheet)
                      /\ \A k \in 1..Len(sheet) :
                            k # loc[p].row_index => sheet'[k] = sheet[k]
                      /\ SubSeq(sheet'[loc[p].row_index], 1, Len(loc[p].row_data))
                            = loc[p].row_data]_vars

\* two pushes of one record into a sheet with the identifier in column A and
\* no row of it: both appended, which no serial order of the two does
C14_Witness ==
    \E p, q \in Procs :
       /\ p # q
       /\ pc[p] = "done" /\ pc[q] = "done" /\ InPush(p) /\ InPush(q)
       /\ loc[p].record = loc[q].record
       /\ loc[p].pushed = "ok" /\ loc[q].pushed = "ok"
       /\ loc[p].row_index = 0 /\ loc[q].row_index = 0
       /\ HeaderField[sheet[1][1]] = "student_id"
       /\ Cardinality({k \in 2..Len(sheet) : Matches(sheet, k, PushId(p))}) = 2

\* C15: an update_one that raises in the middle of the pull ends the pull
\* with False and leaves the records written before it in the store.
C15_NoRollback ==
    [][\A p \in Procs :
         (pc[p] = "sync_upsert" /\ loc'[p].pulled = "failed")
         => /\ students' = students
            /\ \A k \in 1..(loc[p].i - 1) :
                  \E j \in 1..Len(students') :
                     /\ Get(students'[j], "student_id", "") = loc[p].data[k]["student_id"]
            /\ IF InVerify(p) THEN pc'[p] = "find"
               ELSE pc'[p] = "done" /\ result'[p] = [returned |-> FALSE]]_vars

\* the first call of a run, a pull that returned False, and a record of the
\* sheet in the store none of the initial stores holds
C15_Witness ==
    \E p \in Procs :
       /\ calls = 1 /\ pc[p] = "done" /\ call[p].name = "sync_from_google_sheet"
       /\ result[p] = [returned |-> FALSE]
       /\ loc[p].reads = 1 /\ faults = 1
       /\ RecordsOf("S1") # {} /\ students \notin Stores

\* C16: in a verify_student call the lookup comes after the pull has
\* returned; the sheet is written only by the push of a call that has set
\* the flag, before that call's log insert; and the call makes at most two
\* sheet reads, one sheet write and one flag write.
C16_StepOrder ==
    [][\A p \in Procs :
         (InVerify(p) /\ pc[p] # "done")
         => /\ pc[p] \in {"sync_read", "sync_upsert"}
                 => /\ loc[p].pulled = "none" /\ loc[p].sets = 0
                    /\ pc'[p] \in {"sync_upsert", "find"}
            /\ pc[p] = "find" => loc[p].pulled # "none" /\ loc[p].sets = 0
            /\ (pc[p] = "update" /\ pc'[p] = "push_read")
                 => loc'[p].sets = loc[p].sets + 1 /\ sheet' = sheet
            /\ sheet' # sheet
                 => /\ pc[p] = "push_write" /\ pc'[p] = "log"
                    /\ loc[p].sets = 1 /\ loc[p].logged = 0
                    /\ loc'[p].writes = loc[p].writes + 1
                    /\ scan_logs' = scan_logs /\ students' = students
            /\ (pc[p] \in {"sync_read", "push_read"} /\ sheetsOn)
                 => loc'[p].reads = loc[p].reads + 1
            /\ (pc[p] = "log" /\ loc[p].status = "registered")
                 => loc[p].sets = 1 /\ loc[p].pushed # "none"
            /\ loc'[p].reads <= 2 /\ loc'[p].writes <= 1 /\ loc'[p].sets <= 1]_vars

C16_Witness ==
    \E p \in Procs :
       /\ pc[p] = "done" /\ InVerify(p)
       /\ loc[p].reads = 2 /\ loc[p].writes = 1 /\ loc[p].sets = 1 /\ loc[p].logged = 1
       /\ loc[p].pulled = "ok"

\* the cell texts that are, case-insensitively, one of true, yes, 1, y
TrueTexts == {"true", "yes", "1", "y", "TRUE", "Yes"}

\* the cell texts that are, case-insensitively, the word registered
RegisteredTexts == {"registered", "Registered"}

\* students_data against the sheet it was built from: one dict per data row
\* that is as long as the header row and has a non-empty identifier cell, in
\* sheet order, with the boolean fields true exactly for the given texts
DataFollowsSheet(values, data, competitionTrue, statusTrue) ==
    LET headers == values[1]
        Taken(k) == Len(values[k]) >= Len(headers) /\ RowId(values, k) # ""
        Nth(k) == Cardinality({j \in 2..k : Taken(j)})
        LastOf(c) == \A e \in (c + 1)..Len(headers) :
                        HeaderField[headers[e]] # HeaderField[headers[c]]
    IN  /\ Len(data) = Cardinality({k \in 2..Len(values) : Taken(k)})
        /\ \A k \in 2..Len(values) :
              Taken(k) =>
              /\ data[Nth(k)]["student_id"] = RowId(values, k)
              /\ \A c \in 1..Len(headers) :
                    LastOf(c) =>
                    /\ HeaderField[headers[c]] = "competition"
                         => data[Nth(k)]["competition"] = (values[k][c] \in competitionTrue)
                    /\ HeaderField[headers[c]] = "registration_status"
                         => data[Nth(k)]["registration_status"] = (values[k][c] \in statusTrue)

\* an upsert of the pull touches only records of the identifier of the dict
\* it writes, which is never empty
UpsertsOnlyData(p) ==
    pc[p] = "sync_upsert" =>
       /\ loc[p].data[loc[p].i]["student_id"] # ""
       /\ Len(students') >= Len(students)
       /\ \A j \in 1..Len(students') :
             (j > Len(students) \/ students'[j] # students[j])
             => Get(students'[j], "student_id", "")
                   = loc[p].data[loc[p].i]["student_id"]

\* C17 as stated: competition and the registration flag are imported true
\* exactly when the cell is, case-insensitively, one of true, yes, 1, y; and
\* a row without a non-empty identifier cell writes no record.
C17_TruthTexts ==
    [][\A p \in Procs :
         /\ pc'[p] = "sync_upsert"
              => DataFollowsSheet(loc'[p].values, loc'[p].data, TrueTexts, TrueTexts)
         /\ UpsertsOnlyData(p)]_vars

\* C17 amended: as above, with the registration flag also true for a cell
\* that is, case-insensitively, the word registered.
C17_TruthTextsWithRegistered ==
    [][\A p \in Procs :
         /\ pc'[p] = "sync_upsert"
              => DataFollowsSheet(loc'[p].values, loc'[p].data, TrueTexts,
                                  TrueTexts \cup RegisteredTexts)
         /\ UpsertsOnlyData(p)]_vars

\* a completed pull of the sheet whose Status cell of S2 reads Registered:
\* the record of S2 carries the flag
C17_Witness ==
    \E p \in Procs :
       /\ pc[p] = "done" /\ call[p].name = "sync_from_google_sheet"
       /\ result[p] = [returned |-> TRUE]
       /\ loc[p].pulled = "ok" /\ loc[p].reads = 1
       /\ sheet = SheetIdSecond
       /\ calls = 1
       /\ StoredRegistered(students, "S2")

\* C18: a verify_student call that returns without an error returns one of
\* the three actions, verified being true exactly when the action is not
\* not_found, and the log entry the call wrote, if any, carries the call's
\* identifier and the action as its status.
C18_ResultMatchesLog ==
    [][\A p \in Procs :
         (InVerify(p) /\ pc[p] # "done" /\ pc'[p] = "done"
            /\ "error" \notin DOMAIN result'[p])
         => /\ {"verified", "action"} \subseteq DOMAIN result'[p]
            /\ result'[p].action \in ThreeOutcomes
            /\ result'[p].verified = (result'[p].action # "not_found")
            /\ loc'[p].logged <= 1
            /\ scan_logs' # scan_logs
                 => /\ Len(scan_logs') = Len(scan_logs) + 1
                    /\ loc'[p].logged = 1
                    /\ LastLog(scan_logs').student_id = Sid(p)
                    /\ LastLog(scan_logs').status = result'[p].action]_vars

\* a registering call that has returned, its log entry the last of the log
C18_Witness ==
    \E p \in Procs :
       /\ pc[p] = "done" /\ InVerify(p)
       /\ "action" \in DOMAIN result[p] /\ result[p].action = "registered" /\ result[p].verified
       /\ loc[p].pushed = "ok" /\ loc[p].logged = 1
       /\ scan_logs # <<>>
       /\ LastLog(scan_logs).status = "registered"
       /\ LastLog(scan_logs).student_id = Sid(p)

\* the sheet names sid, and only in rows shorter than the header row
ShortOnly(values, sid) ==
    /\ values # <<>>
    /\ \E k \in 2..Len(values) : RowId(values, k) = sid
    /\ \A k \in 2..Len(values) :
          RowId(values, k) = sid => Len(values[k]) < Len(values[1])

\* C19: a pull builds no dict from a data row shorter than the header row,
\* even when its identifier cell is filled: an identifier the sheet names
\* only in such rows gets no record and no change to its record from the
\* pull.
C19_ShortRowsSkipped ==
    [][\A p \in Procs : \A sid \in Ids :
         /\ (pc'[p] = "sync_upsert" /\ ShortOnly(loc'[p].values, sid))
              => \A n \in 1..Len(loc'[p].data) : loc'[p].data[n]["student_id"] # sid
         /\ (pc[p] \in {"sync_read", "sync_upsert"} /\ ShortOnly(sheet, sid))
              => /\ Len(students') >= Len(students)
                 /\ \A j \in 1..Len(students') :
                       Get(students'[j], "student_id", "") = sid
                       => j <= Len(students) /\ students'[j] = students[j]
                 /\ \A j \in 1..Len(students) :
                       Get(students[j], "student_id", "") = sid
                       => students'[j] = students[j]]_vars

\* a verify of an identifier the sheet names in a short row only, the store
\* holding no record of it: the pull succeeded and the call found nothing
C19_Witness ==
    \E p \in Procs :
       /\ pc[p] = "done" /\ InVerify(p)
       /\ ShortOnly(sheet, Sid(p))
       /\ loc[p].pulled = "ok"
       /\ "action" \in DOMAIN result[p] /\ result[p].action = "not_found"
       /\ RecordsOf(Sid(p)) = {}
       /\ students # <<>>

====
